---- MODULE Spec2Model ----
(***************************************************************************)
(* Model of the Terminal AI Shortcuts extension (src/src/extension.ts):    *)
(* the configuration resolver (readFileConfig, loadShortcuts,              *)
(* mergeShortcuts, normalizeShortcuts), the reload procedure `load`, the   *)
(* identifier helper makeUniqueId and the shortcut runner runShortcut.     *)
(*                                                                         *)
(* A shortcut record is a function from the names of the fields that are   *)
(* present on the JavaScript object to their values, so that "field is     *)
(* absent" and "field has its default value" are different things.         *)
(***************************************************************************)
EXTENDS Integers, Sequences, FiniteSets, TLC

VARIABLES
  folderOpen,     \* vscode.workspace.workspaceFolders is non-empty
  primaryFile,    \* content of <root>/.vscode/terminal-shortcuts.json
  fallbackFile,   \* content of <root>/terminal-shortcuts.json
  settings,       \* the terminalShortcuts.* settings
  shortcuts,      \* module variable `shortcuts` (the resolved list)
  loads,          \* the invocations of `load` that are in flight
  loadError,      \* a load has ended in a rejected promise
  nIn,            \* argument of normalizeShortcuts under test
  nOut,           \* normalizeShortcuts(nIn)
  nOut2,          \* normalizeShortcuts(nOut)
  uBase,          \* argument base of makeUniqueId under test
  uExisting,      \* argument existing of makeUniqueId under test
  uResult,        \* result of makeUniqueId
  terminals,      \* vscode.window.terminals, in creation order
  lastRun,        \* what the latest runShortcut call did
  active,         \* the extension is activated: its listeners and commands live
  watching,       \* the file watchers of fileWatchers are not disposed
  showAll,        \* setting terminalShortcuts.showInStatusBar
  statusBarItems, \* keys of the map statusBarItems, each bound to a live widget
  leaked,         \* live status-bar widgets that the map does not hold
  lastOp          \* what the latest save operation did

vars == <<folderOpen, primaryFile, fallbackFile, settings, shortcuts, loads,
          loadError, nIn, nOut, nOut2, uBase, uExisting, uResult, terminals,
          lastRun, active, watching, showAll, statusBarItems, leaked,
          lastOp>>

envVars  == <<folderOpen, primaryFile, fallbackFile, settings>>
loadVars == <<shortcuts, loads, loadError>>
normVars == <<nIn, nOut, nOut2>>
uidVars  == <<uBase, uExisting, uResult>>
runVars  == <<terminals, lastRun>>
lifeVars == <<active, watching>>
barVars  == <<showAll, statusBarItems, leaked>>
saveVars == <<lastOp>>

(***************************************************************************)
(* Bounds of the model.                                                    *)
(***************************************************************************)
MaxLen == 2          \* longest commands array drawn for file and settings
MaxNormLen == 3      \* longest array passed to normalizeShortcuts
MaxSuffix == 2       \* largest numeric suffix occurring in an existing id
MaxLoads == 2        \* invocations of `load` in flight at once
MaxTerminals == 2    \* open terminal sessions
MaxRunLen == 2       \* longest resolved list handed to the runner
MaxLeaked == 1       \* live status-bar widgets outside the map
MaxOps == 2          \* save operations in one behaviour

SeqsUpTo(S, n) == UNION {[1..k -> S] : k \in 0..n}

(***************************************************************************)
(* JavaScript values.                                                      *)
(***************************************************************************)
\* the JSON value null, as an element of a commands array
Null == [jsNull |-> TRUE]

IsNull(s) == "jsNull" \in DOMAIN s

\* the value of s.id for a non-null s; a record without id reads undefined
Undefined == "undefined"

IdOf(s) == IF "id" \in DOMAIN s THEN s.id ELSE Undefined

IdsOf(l) == {IdOf(l[i]) : i \in 1..Len(l)}

\* the outcome of a call: a returned value or a thrown exception
Return(v) == [threw |-> FALSE, value |-> v]

Throw == [threw |-> TRUE, value |-> <<>>]

(***************************************************************************)
(* normalizeShortcuts: arr.map(s => ({ reuse: true, focus: true,           *)
(* codicon: 'terminal', location: 'editor', ...s })).  Spreading null      *)
(* contributes no property.                                                *)
(***************************************************************************)
Defaults ==
  [reuse |-> TRUE, focus |-> TRUE, codicon |-> "terminal", location |-> "editor"]

NormalizeOverwriting(s) == IF IsNull(s) THEN Defaults ELSE Defaults @@ s

NormalizeWrappingIcon(s) ==
  LET t == IF IsNull(s) THEN Defaults ELSE s @@ Defaults
  IN  [t EXCEPT !.codicon = "$(" \o @ \o ")"]

normalizeOne(s) == IF IsNull(s) THEN Defaults ELSE s @@ Defaults

normalizeShortcuts(arr) == [i \in 1..Len(arr) |-> normalizeOne(arr[i])]

(***************************************************************************)
(* mergeShortcuts: primary.map(s => s.id) and the filter callback read     *)
(* s.id of every element, which throws a TypeError on null.                *)
(***************************************************************************)
RECURSIVE filterNotIn(_, _)
filterNotIn(secondary, ids) ==
  IF secondary = <<>> THEN <<>>
  ELSE LET s == Head(secondary)
           rest == filterNotIn(Tail(secondary), ids)
       IN  IF IdOf(s) \in ids THEN rest ELSE <<s>> \o rest

mergeShortcuts(primary, secondary) ==
  IF \E i \in 1..Len(primary) : IsNull(primary[i]) THEN Throw
  ELSE IF \E i \in 1..Len(secondary) : IsNull(secondary[i]) THEN Throw
  ELSE LET ids == {IdOf(primary[i]) : i \in 1..Len(primary)}
           extras == filterNotIn(secondary, ids)
       IN  Return(primary \o extras)

(***************************************************************************)
(* Content of a configuration file.                                        *)
(*   kind: "missing" (readFile rejects), "unreadable" (readFile rejects),  *)
(*         "badjson" (JSON.parse throws), "null", "scalar", "array",       *)
(*         "object" (the JSON value the text parses to)                    *)
(*   cmds: for an object, whether the property commands is "absent",       *)
(*         "notarray" (a truthy value that is not an array) or "array"     *)
(*   commands: the elements of the commands array                          *)
(***************************************************************************)
FileOf(kind) == [kind |-> kind, cmds |-> "absent", commands |-> <<>>]

Doc(commands) == [kind |-> "object", cmds |-> "array", commands |-> commands]

DocNotArray == [kind |-> "object", cmds |-> "notarray", commands |-> <<>>]

\* the value `undefined` returned by readFileConfig
NoFileConfig == FileOf("undefined")

(***************************************************************************)
(* One iteration of the loop of readFileConfig: the body of the try.       *)
(* readFile rejects for a missing or unreadable file, JSON.parse throws on *)
(* malformed text, and `config && typeof config === 'object'` accepts      *)
(* objects and arrays but neither null nor scalars.                        *)
(***************************************************************************)
TryReadAcceptingAny(content) ==
  ~ (content.kind \in {"missing", "unreadable", "badjson"})

tryRead(content) ==
  IF content.kind \in {"missing", "unreadable"} THEN FALSE
  ELSE IF content.kind = "badjson" THEN FALSE
  ELSE content.kind \in {"object", "array"}

(***************************************************************************)
(* The settings: commands is the value of terminalShortcuts.commands       *)
(* (hasCommands FALSE: config.get returns undefined), merge the value of   *)
(* terminalShortcuts.mergeUserAndWorkspace (hasMerge FALSE: undefined).    *)
(***************************************************************************)
Settings(hasCommands, commands, hasMerge, merge) ==
  [hasCommands |-> hasCommands, commands |-> commands,
   hasMerge |-> hasMerge, merge |-> merge]

(***************************************************************************)
(* loadShortcuts after `await readFileConfig()` has produced fromFile.     *)
(***************************************************************************)
LoadIgnoringMergeFlag(fromFile, config) ==
  LET fromSettings == IF config.hasCommands THEN config.commands ELSE <<>>
  IN  IF fromFile.kind = "object" /\ fromFile.cmds = "array"
      THEN LET merged == mergeShortcuts(fromFile.commands, fromSettings)
           IN  IF merged.threw THEN Throw
               ELSE Return(normalizeShortcuts(merged.value))
      ELSE Return(normalizeShortcuts(fromSettings))

LoadSkippingEmptyFile(fromFile, config) ==
  LET fromSettings == IF config.hasCommands THEN config.commands ELSE <<>>
      mergeWithSettings == IF config.hasMerge THEN config.merge ELSE TRUE
  IN  IF fromFile.kind = "object" /\ fromFile.cmds = "array"
         /\ fromFile.commands # <<>>
      THEN IF mergeWithSettings
           THEN LET merged == mergeShortcuts(fromFile.commands, fromSettings)
                IN  IF merged.threw THEN Throw
                    ELSE Return(normalizeShortcuts(merged.value))
           ELSE Return(normalizeShortcuts(fromFile.commands))
      ELSE Return(normalizeShortcuts(fromSettings))

loadShortcuts(fromFile, config) ==
  LET fromSettings == IF config.hasCommands THEN config.commands ELSE <<>>
      mergeWithSettings == IF config.hasMerge THEN config.merge ELSE TRUE
  IN  IF fromFile.kind = "object" /\ fromFile.cmds = "array"
      THEN IF mergeWithSettings
           THEN LET merged == mergeShortcuts(fromFile.commands, fromSettings)
                IN  IF merged.threw THEN Throw
                    ELSE Return(normalizeShortcuts(merged.value))
           ELSE Return(normalizeShortcuts(fromFile.commands))
      ELSE Return(normalizeShortcuts(fromSettings))

(***************************************************************************)
(* Inputs.  The records below differ in the fields they carry: Fa and Sa   *)
(* share the id "a" and differ in command, so the two versions of one id   *)
(* can be told apart after a merge.                                        *)
(***************************************************************************)
Fa == [id |-> "a", label |-> "A", command |-> "from-file"]

Sa == [id |-> "a", label |-> "A", command |-> "from-settings", reuse |-> FALSE]

Rb == [id |-> "b", label |-> "B", command |-> "run-b", statusBar |-> TRUE]

EntryPool == {Fa, Sa, Rb, Null}

Lists == SeqsUpTo(EntryPool, MaxLen)

NonObjectFiles ==
  {FileOf(k) : k \in {"missing", "unreadable", "badjson", "null", "scalar"}}

\* every content of the primary file that is drawn for a resolution
AnyPrimary ==
  NonObjectFiles \cup {FileOf("array"), FileOf("object"), DocNotArray}
    \cup {Doc(l) : l \in Lists}

AnyFallback ==
  {FileOf("missing"), FileOf("null"), FileOf("object"), Doc(<<Rb>>), Doc(<<Sa, Fa>>)}

AnySettings ==
  {Settings(FALSE, <<>>, hm, m) : hm \in BOOLEAN, m \in BOOLEAN}
    \cup {Settings(TRUE, l, hm, m) : l \in Lists, hm \in BOOLEAN, m \in BOOLEAN}

\* the contents the files and settings move between while reloads run
PrimaryContents ==
  {FileOf("missing"), FileOf("badjson"), FileOf("array"), FileOf("object"),
   Doc(<<>>), Doc(<<Fa, Rb>>), Doc(<<Fa, Fa>>)}

FallbackContents == {FileOf("missing"), FileOf("null"), Doc(<<Rb>>)}

SettingsContents ==
  {Settings(FALSE, <<>>, FALSE, FALSE), Settings(TRUE, <<Sa, Rb>>, FALSE, FALSE),
   Settings(TRUE, <<Sa, Rb>>, TRUE, FALSE), Settings(TRUE, <<Rb, Rb>>, TRUE, TRUE)}

(***************************************************************************)
(* The status bar.  Every widget is created for one shortcut; the map      *)
(* statusBarItems holds one widget per key, so setting a key that is       *)
(* already bound drops the reference to the earlier widget, which stays    *)
(* shown.                                                                  *)
(***************************************************************************)
\* if (!(showAll || s.statusBar)) continue
inStatusBar(s, all) == all \/ ("statusBar" \in DOMAIN s /\ s.statusBar = TRUE)

RECURSIVE shownIds(_, _)
shownIds(list, all) ==
  IF list = <<>> THEN <<>>
  ELSE IF inStatusBar(Head(list), all)
       THEN <<IdOf(Head(list))>> \o shownIds(Tail(list), all)
       ELSE shownIds(Tail(list), all)

\* rebuildStatusBar: disposeStatusBar() empties the map and disposes its
\* widgets, then one widget is created and set under s.id for every shown s
rebuildStatusBar(list, all) ==
  LET ids == shownIds(list, all)
      keys == {ids[i] : i \in 1..Len(ids)}
  IN  [items |-> keys, dropped |-> Len(ids) - Cardinality(keys)]

(***************************************************************************)
(* The invocations of `load`.  pc is the await the invocation is          *)
(* suspended at:                                                           *)
(*   "readPrimary", "readFallback": `await fs.readFile(uri)` of the loop   *)
(*       of readFileConfig;                                                *)
(*   "resolve": `await readFileConfig()` in loadShortcuts, fromFile being  *)
(*       the value the promise resolved with;                              *)
(*   "assign": `await loadShortcuts(context)` in load, result being the    *)
(*       value the promise resolved with.                                  *)
(***************************************************************************)
LoadIds == 1..MaxLoads

IdleLoad == [pc |-> "idle", fromFile |-> NoFileConfig, result |-> <<>>]

\* a continuation is queued as a microtask: it runs before any host event
MicrotaskPending == \E p \in LoadIds : loads[p].pc \in {"resolve", "assign"}

\* load() up to its first await: readFileConfig returns undefined at once
\* when no folder is open, else it issues the read of the primary path
BeginLoad(p) ==
  /\ loads[p].pc = "idle"
  /\ loads' = [loads EXCEPT ![p] =
       IF folderOpen THEN [IdleLoad EXCEPT !.pc = "readPrimary"]
       ELSE [IdleLoad EXCEPT !.pc = "resolve"]]

\* command terminalShortcuts.refresh
Refresh ==
  /\ active
  /\ ~ MicrotaskPending
  /\ \E p \in LoadIds : BeginLoad(p)
  /\ UNCHANGED <<envVars, shortcuts, loadError, normVars, uidVars, lifeVars, barVars, saveVars, runVars>>

\* the user edits the settings; onDidChangeConfiguration calls load()
ChangeSettings ==
  /\ ~ MicrotaskPending
  /\ \E v \in SettingsContents \ {settings} : settings' = v
  /\ IF active THEN \E p \in LoadIds : BeginLoad(p) ELSE UNCHANGED loads
  /\ UNCHANGED <<folderOpen, primaryFile, fallbackFile, shortcuts, loadError,
                 normVars, uidVars, lifeVars, barVars, saveVars, runVars>>

\* a configuration file is created, changed or deleted; a watcher calls load()
ChangePrimary ==
  /\ ~ MicrotaskPending
  /\ folderOpen
  /\ \E c \in PrimaryContents \ {primaryFile} : primaryFile' = c
  /\ IF watching THEN \E p \in LoadIds : BeginLoad(p) ELSE UNCHANGED loads
  /\ UNCHANGED <<folderOpen, fallbackFile, settings, shortcuts, loadError,
                 normVars, uidVars, lifeVars, barVars, saveVars, runVars>>

ChangeFallback ==
  /\ ~ MicrotaskPending
  /\ folderOpen
  /\ \E c \in FallbackContents \ {fallbackFile} : fallbackFile' = c
  /\ IF watching THEN \E p \in LoadIds : BeginLoad(p) ELSE UNCHANGED loads
  /\ UNCHANGED <<folderOpen, primaryFile, settings, shortcuts, loadError,
                 normVars, uidVars, lifeVars, barVars, saveVars, runVars>>

(***************************************************************************)
(* readFileConfig: for (const uri of [primary, fallback]) { try { ... } }  *)
(***************************************************************************)
ReadPrimary(p) ==
  /\ loads[p].pc = "readPrimary"
  /\ loads' = [loads EXCEPT ![p] =
       IF tryRead(primaryFile)
       THEN [@ EXCEPT !.pc = "resolve", !.fromFile = primaryFile]
       ELSE [@ EXCEPT !.pc = "readFallback"]]
  /\ UNCHANGED <<envVars, shortcuts, loadError, normVars, uidVars, lifeVars, barVars, saveVars, runVars>>

ReadFallback(p) ==
  /\ loads[p].pc = "readFallback"
  /\ loads' = [loads EXCEPT ![p] =
       IF tryRead(fallbackFile)
       THEN [@ EXCEPT !.pc = "resolve", !.fromFile = fallbackFile]
       ELSE [@ EXCEPT !.pc = "resolve", !.fromFile = NoFileConfig]]
  /\ UNCHANGED <<envVars, shortcuts, loadError, normVars, uidVars, lifeVars, barVars, saveVars, runVars>>

\* loadShortcuts resumes: reads the settings and returns the list, or throws,
\* in which case the promise of load rejects and nothing is assigned
Resolve(p) ==
  /\ loads[p].pc = "resolve"
  /\ LET r == loadShortcuts(loads[p].fromFile, settings)
     IN  IF r.threw
         THEN /\ loads' = [loads EXCEPT ![p] = IdleLoad]
              /\ loadError' = TRUE
         ELSE /\ loads' = [loads EXCEPT ![p] =
                   [@ EXCEPT !.pc = "assign", !.result = r.value]]
              /\ UNCHANGED loadError
  /\ UNCHANGED <<envVars, shortcuts, normVars, uidVars, lifeVars, barVars, saveVars, runVars>>

\* load resumes: shortcuts = <the list>; rebuildStatusBar(context);
\* treeProvider?.refresh()
AssignPartlyBuilt(p) ==
  /\ loads[p].pc = "assign"
  /\ shortcuts' = IF loads[p].result = <<>> THEN <<>> ELSE Tail(loads[p].result)
  /\ LET bar == rebuildStatusBar(loads[p].result, showAll)
     IN  /\ leaked + bar.dropped <= MaxLeaked
         /\ statusBarItems' = bar.items
         /\ leaked' = leaked + bar.dropped
  /\ loads' = [loads EXCEPT ![p] = IdleLoad]
  /\ UNCHANGED <<envVars, loadError, normVars, uidVars, lifeVars, showAll, runVars,
                 saveVars>>

Assign(p) ==
  /\ loads[p].pc = "assign"
  /\ shortcuts' = loads[p].result
  /\ LET bar == rebuildStatusBar(loads[p].result, showAll)
     IN  /\ leaked + bar.dropped <= MaxLeaked
         /\ statusBarItems' = bar.items
         /\ leaked' = leaked + bar.dropped
  /\ loads' = [loads EXCEPT ![p] = IdleLoad]
  /\ UNCHANGED <<envVars, loadError, normVars, uidVars, lifeVars, showAll, runVars,
                 saveVars>>

\* the user toggles terminalShortcuts.showInStatusBar;
\* onDidChangeConfiguration calls load()
ChangeShowAll ==
  /\ ~ MicrotaskPending
  /\ showAll' = ~ showAll
  /\ IF active THEN \E p \in LoadIds : BeginLoad(p) ELSE UNCHANGED loads
  /\ UNCHANGED <<envVars, shortcuts, loadError, normVars, uidVars, lifeVars,
                 statusBarItems, leaked, runVars, saveVars>>

\* deactivate(): disposeStatusBar(); fileWatchers.forEach(w => w.dispose());
\* statusBarItems.clear().  The host then disposes context.subscriptions
\* (the commands and the configuration listener).
deactivate ==
  /\ active
  /\ ~ MicrotaskPending
  /\ active' = FALSE
  /\ watching' = FALSE
  /\ statusBarItems' = {}
  /\ UNCHANGED <<envVars, loadVars, normVars, uidVars, showAll, leaked, runVars,
                 saveVars>>

LoadStep == \E p \in LoadIds : ReadPrimary(p) \/ ReadFallback(p) \/ Resolve(p) \/ Assign(p)

(***************************************************************************)
(* Results of the helpers that are exercised on their own.                 *)
(***************************************************************************)
NotCalled == [called |-> FALSE, value |-> <<>>]

Called(v) == [called |-> TRUE, value |-> v]

NotCalledId == [called |-> FALSE, value |-> ""]

(***************************************************************************)
(* makeUniqueId: ids are strings, `${base}-${i}` is string concatenation.  *)
(***************************************************************************)
Suffixed(base, i) == base \o "-" \o ToString(i)

MakeUniqueIdWithoutLoop(base, existing) ==
  IF base \notin existing THEN base ELSE Suffixed(base, 1)

RECURSIVE firstFreeSuffix(_, _, _)
firstFreeSuffix(base, existing, i) ==
  IF Suffixed(base, i) \in existing
  THEN firstFreeSuffix(base, existing, i + 1)
  ELSE Suffixed(base, i)

makeUniqueId(base, existing) ==
  IF base \notin existing THEN base ELSE firstFreeSuffix(base, existing, 1)

(***************************************************************************)
(* runShortcut.  A terminal session is [name, show, focused, sent,         *)
(* creator, users]:                                                        *)
(*   show: the argument of the latest terminal.show(preserveFocus) call;   *)
(*   focused: the latest run made the session take the keyboard focus      *)
(*       (an editor-area session takes it on creation unless its location  *)
(*       options say preserveFocus, and show(preserveFocus) takes it       *)
(*       exactly when preserveFocus is false);                             *)
(*   sent: the text of the latest sendText;                                *)
(*   creator: the id of the record whose run created the session;          *)
(*   users: the ids of the records whose runs sent text to the session.    *)
(***************************************************************************)
\* s.f || ... : the property is present and not the empty string
Truthy(s, f) == f \in DOMAIN s /\ s[f] # ""

\* const name = s.terminalName || s.label || s.id
terminalNameOf(s) ==
  IF Truthy(s, "terminalName") THEN s.terminalName
  ELSE IF Truthy(s, "label") THEN s.label
  ELSE IdOf(s)

\* s.reuse !== false, s.focus !== false
NotFalse(s, f) == ~ (f \in DOMAIN s /\ s[f] = FALSE)

FindLastTerminal(name) ==
  LET same == {i \in 1..Len(terminals) : terminals[i].name = name}
  IN  IF same = {} THEN 0 ELSE CHOOSE i \in same : \A j \in same : i >= j

\* vscode.window.terminals.find(t => t.name === name): 0 when not found
findTerminal(name) ==
  LET same == {i \in 1..Len(terminals) : terminals[i].name = name}
  IN  IF same = {} THEN 0 ELSE CHOOSE i \in same : \A j \in same : i <= j

AlwaysFindTerminal(s) == findTerminal(terminalNameOf(s))

\* the terminal to reuse, 0 when one has to be created
reusedTerminal(s) ==
  IF NotFalse(s, "reuse") THEN findTerminal(terminalNameOf(s)) ELSE 0

\* resolveTerminalLocation: Panel, or editor options whose preserveFocus is
\* s.focus === false
resolveTerminalLocation(s) ==
  IF "location" \in DOMAIN s /\ s.location = "panel"
  THEN [area |-> "panel", preserveFocus |-> FALSE]
  ELSE [area |-> "editor", preserveFocus |-> ~ NotFalse(s, "focus")]

\* the session takes the focus when it is created in the editor area
focusedOnCreate(location) == location.area = "editor" /\ ~ location.preserveFocus

\* const focus = s.focus !== false; terminal.show(focus): the value handed
\* to the parameter preserveFocus of Terminal.show
showArgument(s) == NotFalse(s, "focus")

NoRunYet == [kind |-> "none", rec |-> Null, tick |-> 0, id |-> "", target |-> 0]

\* the index of the session the run of s uses
runTarget(s) ==
  IF reusedTerminal(s) = 0 THEN Len(terminals) + 1 ELSE reusedTerminal(s)

runShortcut(s) ==
  LET name == terminalNameOf(s)
      found == reusedTerminal(s)
      preserveFocus == showArgument(s)
      focused == IF ~ preserveFocus THEN TRUE
                 ELSE found = 0 /\ focusedOnCreate(resolveTerminalLocation(s))
      created == [name |-> name, show |-> preserveFocus, focused |-> focused,
                  sent |-> s.command, creator |-> IdOf(s), users |-> {IdOf(s)}]
  IN  /\ found = 0 => Len(terminals) < MaxTerminals
      /\ terminals' =
           IF found = 0 THEN Append(terminals, created)
           ELSE [terminals EXCEPT ![found] =
                   [@ EXCEPT !.show = preserveFocus, !.focused = focused,
                             !.sent = s.command, !.users = @ \cup {IdOf(s)}]]

FindShortcutOrFirst(id) ==
  LET hits == {i \in 1..Len(shortcuts) : IdOf(shortcuts[i]) = id}
  IN  IF hits = {} THEN (IF shortcuts = <<>> THEN 0 ELSE 1)
      ELSE CHOOSE i \in hits : \A j \in hits : i <= j

\* shortcuts.find(x => x.id === id): 0 when not found
findShortcut(id) ==
  LET hits == {i \in 1..Len(shortcuts) : IdOf(shortcuts[i]) = id}
  IN  IF hits = {} THEN 0 ELSE CHOOSE i \in hits : \A j \in hits : i <= j

\* command terminalShortcuts.runShortcut (tree item, status bar item, or the
\* palette, which passes no id: id = "")
RunShortcutById ==
  /\ \E id \in IdsOf(shortcuts) \cup {"unknown", ""} :
       IF id = ""
       THEN /\ lastRun' = [kind |-> "noid", rec |-> Null,
                           tick |-> 1 - lastRun.tick, id |-> id, target |-> 0]
            /\ UNCHANGED terminals
       ELSE IF findShortcut(id) # 0
       THEN /\ runShortcut(shortcuts[findShortcut(id)])
            /\ lastRun' = [kind |-> "run", rec |-> shortcuts[findShortcut(id)],
                           tick |-> 1 - lastRun.tick, id |-> id,
                           target |-> runTarget(shortcuts[findShortcut(id)])]
       ELSE \* showErrorMessage(`Raccourci introuvable: ${id}`)
            /\ lastRun' = [kind |-> "notfound", rec |-> Null,
                           tick |-> 1 - lastRun.tick, id |-> id, target |-> 0]
            /\ UNCHANGED terminals
  /\ UNCHANGED <<envVars, loadVars, normVars, uidVars, lifeVars, barVars, saveVars>>

\* command terminalShortcuts.run: the user picks one entry of the list
RunPicked ==
  /\ \E i \in 1..Len(shortcuts) :
       /\ runShortcut(shortcuts[i])
       /\ lastRun' = [kind |-> "run", rec |-> shortcuts[i],
                      tick |-> 1 - lastRun.tick, id |-> IdOf(shortcuts[i]),
                      target |-> runTarget(shortcuts[i])]
  /\ UNCHANGED <<envVars, loadVars, normVars, uidVars, lifeVars, barVars, saveVars>>

\* the user closes a terminal session
CloseTerminal ==
  /\ \E i \in 1..Len(terminals) :
       terminals' = SubSeq(terminals, 1, i - 1) \o SubSeq(terminals, i + 1, Len(terminals))
  /\ UNCHANGED <<envVars, loadVars, normVars, uidVars, lifeVars, barVars, saveVars, lastRun>>

(***************************************************************************)
(* Saving a record.  cfg.update and fs.writeFile either succeed or reject; *)
(* writeOk is the outcome the host gives.  An outcome tells what was read  *)
(* (before), what was handed to the write (written), how many writes were  *)
(* attempted, and the notices shown.                                       *)
(***************************************************************************)
\* list.findIndex(x => x.id === s.id), counted from 1; 0 when none matches
RECURSIVE findIndex(_, _, _)
findIndex(list, id, i) ==
  IF i > Len(list) THEN 0
  ELSE IF IdOf(list[i]) = id THEN i
  ELSE findIndex(list, id, i + 1)

\* if (idx >= 0) current[idx] = s; else current.push(s)
UpsertAlwaysPushing(list, s) == Append(list, s)

upsert(list, s) ==
  LET idx == findIndex(list, IdOf(s), 1)
  IN  IF idx > 0 THEN [list EXCEPT ![idx] = s] ELSE Append(list, s)

\* cfg.get('commands') || []
currentCommands == IF settings.hasCommands THEN settings.commands ELSE <<>>

UpsertGlobalSilently(s, writeOk) ==
  [before |-> currentCommands, written |-> upsert(currentCommands, s),
   writes |-> 1, ok |-> writeOk, threw |-> FALSE, notices |-> {}]

upsertGlobalShortcut(s, writeOk) ==
  [before |-> currentCommands, written |-> upsert(currentCommands, s),
   writes |-> 1, ok |-> writeOk, threw |-> FALSE,
   notices |-> IF writeOk THEN {} ELSE {"error"}]

\* the value of json after the try around readFile and JSON.parse, for the
\* contents whose commands can be searched: a missing or malformed file
\* leaves { commands: [] }, an object without commands gets an empty list
jsonCommands(content) ==
  IF content.kind = "object" /\ content.cmds = "array" THEN content.commands
  ELSE <<>>

\* json.commands!.findIndex throws a TypeError outside every try when json
\* is null or a scalar (the catch swallowed the failed test of
\* json.commands) or when commands is a value without findIndex
searchThrows(content) ==
  \/ content.kind \in {"null", "scalar"}
  \/ content.kind = "object" /\ content.cmds = "notarray"

\* JSON.stringify(json): a document that was a JSON array keeps its elements
\* and loses the commands property that was set on it
stringify(content, commands) ==
  IF content.kind = "array" THEN content ELSE Doc(commands)

upsertWorkspaceShortcut(s, writeOk) ==
  IF ~ folderOpen
  THEN [before |-> primaryFile, written |-> primaryFile, writes |-> 0,
        ok |-> FALSE, threw |-> FALSE, notices |-> {"warning"}]
  ELSE IF searchThrows(primaryFile)
  THEN [before |-> primaryFile, written |-> primaryFile, writes |-> 0,
        ok |-> FALSE, threw |-> TRUE, notices |-> {}]
  ELSE [before |-> primaryFile,
        written |-> stringify(primaryFile, upsert(jsonCommands(primaryFile), s)),
        writes |-> 1, ok |-> writeOk, threw |-> FALSE,
        notices |-> IF writeOk THEN {} ELSE {"error"}]

\* no write was attempted: the operation stopped before it
NoWrite(notices) ==
  [before |-> currentCommands, written |-> currentCommands, writes |-> 0,
   ok |-> FALSE, threw |-> FALSE, notices |-> notices]

\* readFileConfig over the primary content `file` and the fallback file
readFileConfig(file) ==
  IF ~ folderOpen THEN NoFileConfig
  ELSE IF tryRead(file) THEN file
  ELSE IF tryRead(fallbackFile) THEN fallbackFile
  ELSE NoFileConfig

(***************************************************************************)
(* The rest of a save operation after `out` came back: the sources take    *)
(* the written value when the write succeeded, the configuration listener  *)
(* or the file watcher reloads, the command reloads a second time when it  *)
(* awaits load() itself, and the notices are shown.  No other event is     *)
(* delivered while the operation runs, so its reloads run to completion.   *)
(***************************************************************************)
Finish(kind, cancelled, rec, out, target, awaitsLoad, success) ==
  LET sett == IF target = "settings" /\ out.ok
              THEN [settings EXCEPT !.hasCommands = TRUE, !.commands = out.written]
              ELSE settings
      file == IF target = "file" /\ out.ok THEN out.written ELSE primaryFile
      heard == IF target = "settings" THEN active ELSE watching
      n == (IF out.ok /\ heard THEN 1 ELSE 0) + (IF out.ok /\ awaitsLoad THEN 1 ELSE 0)
      r == loadShortcuts(readFileConfig(file), sett)
      bar == rebuildStatusBar(r.value, showAll)
      shown == success /\ ~ out.threw /\ ~ (awaitsLoad /\ out.ok /\ r.threw)
  IN  /\ lastOp.seq < MaxOps
      /\ settings' = sett
      /\ primaryFile' = file
      /\ IF n = 0 THEN UNCHANGED <<shortcuts, loadError, statusBarItems, leaked>>
         ELSE IF r.threw
         THEN loadError' = TRUE /\ UNCHANGED <<shortcuts, statusBarItems, leaked>>
         ELSE /\ leaked + n * bar.dropped <= MaxLeaked
              /\ shortcuts' = r.value
              /\ statusBarItems' = bar.items
              /\ leaked' = leaked + n * bar.dropped
              /\ UNCHANGED loadError
      /\ lastOp' = [kind |-> kind, seq |-> lastOp.seq + 1,
                    cancelled |-> cancelled, rec |-> rec,
                    target |-> target, before |-> out.before,
                    written |-> out.written, writes |-> out.writes,
                    ok |-> out.ok, threw |-> out.threw, reloads |-> n,
                    notices |-> out.notices \cup (IF shown THEN {"success"} ELSE {})]
      /\ UNCHANGED <<folderOpen, fallbackFile, loads, normVars, uidVars, runVars,
                     lifeVars, showAll>>

(***************************************************************************)
(* promptAndCreateGlobalShortcut.  The seven prompts are numbered in       *)
(* order: 1 label, 2 command, 3 identifier, 4 terminal name, 5 status bar, *)
(* 6 location, 7 icon.  A dialog tells which prompts the user cancelled    *)
(* (the prompt returns undefined); the other prompts get an answer.        *)
(***************************************************************************)
Dialogs == {c \in SUBSET (1..7) : Cardinality(c) <= 1}

AddIds == {"a"}

\* if (!label) return undefined; ... command ...; ... id ...
AbandonsOnAnyCancel(cancelled) == cancelled # {}

abandons(cancelled) == cancelled \cap (1..3) # {}

\* newShortcut: terminalName || undefined, showInStatus === 'Oui',
\* codicon default 'terminal', where?.startsWith('Panneau')
newShortcut(id, cancelled) ==
  LET base == [id |-> id, label |-> "Lint", command |-> "npm run lint",
               reuse |-> TRUE, focus |-> TRUE,
               statusBar |-> (5 \notin cancelled),
               codicon |-> IF 7 \in cancelled THEN "terminal" ELSE "rocket",
               location |-> IF 6 \in cancelled THEN "editor" ELSE "panel"]
  IN  IF 4 \in cancelled THEN base ELSE base @@ [terminalName |-> "Lint term"]


\* terminalShortcuts.addGlobal
AddGlobal ==
  /\ active
  /\ \E cancelled \in Dialogs : \E id \in AddIds : \E writeOk \in BOOLEAN :
       IF abandons(cancelled)
       THEN Finish("addGlobal", cancelled, Null, NoWrite({}), "settings", TRUE, FALSE)
       ELSE LET rec == newShortcut(id, cancelled)
                out == upsertGlobalShortcut(rec, writeOk)
            IN  Finish("addGlobal", cancelled, rec, out, "settings", TRUE, out.ok)

\* terminalShortcuts.pinToGlobal: id ? shortcuts.find(x => x.id === id) : undefined
PinToGlobal ==
  /\ active
  /\ \E id \in IdsOf(shortcuts) \cup {""} : \E writeOk \in BOOLEAN :
       LET i == IF id = "" THEN 0 ELSE findIndex(shortcuts, id, 1)
       IN  IF i = 0
           THEN Finish("pinToGlobal", {}, Null, NoWrite({"warning"}), "settings",
                       TRUE, FALSE)
           ELSE LET out == upsertGlobalShortcut(shortcuts[i], writeOk)
                IN  Finish("pinToGlobal", {}, shortcuts[i], out, "settings", TRUE,
                           out.ok)

\* the records the editor panel posts
PanelPool == {Fa, Rb}

\* message saveGlobal of the panel
SaveGlobal ==
  /\ active
  /\ \E rec \in PanelPool : \E writeOk \in BOOLEAN :
       Finish("saveGlobal", {}, rec, upsertGlobalShortcut(rec, writeOk),
              "settings", FALSE, TRUE)

\* message saveWorkspace of the panel
SaveWorkspace ==
  /\ active
  /\ \E rec \in PanelPool : \E writeOk \in BOOLEAN :
       Finish("saveWorkspace", {}, rec, upsertWorkspaceShortcut(rec, writeOk),
              "file", FALSE, TRUE)

\* message duplicateGlobal of the panel; choice is the answer to the quick
\* pick shown when the id exists ("none": the pick was dismissed)
DuplicateGlobal ==
  /\ active
  /\ \E rec \in PanelPool : \E writeOk \in BOOLEAN :
       LET ids == IdsOf(currentCommands)
           exists == IdOf(rec) \in ids
       IN  \E choice \in (IF exists THEN {"none", "overwrite", "copy"} ELSE {"overwrite"}) :
             LET toSave == IF exists /\ choice = "copy"
                           THEN [rec EXCEPT !.id = makeUniqueId(rec.id \o "-global", ids)]
                           ELSE rec
             IN  IF exists /\ choice = "none"
                 THEN Finish("duplicateGlobal", {}, rec, NoWrite({}), "settings",
                             FALSE, FALSE)
                 ELSE Finish("duplicateGlobal", {}, toSave,
                             upsertGlobalShortcut(toSave, writeOk), "settings",
                             FALSE, TRUE)

(***************************************************************************)
(* State after activate(): shortcuts = [] and the initial load() has run   *)
(* up to its first await.                                                  *)
(***************************************************************************)
Activated ==
  /\ shortcuts = <<>>
  /\ loads = [p \in LoadIds |->
       IF p = 1
       THEN IF folderOpen THEN [IdleLoad EXCEPT !.pc = "readPrimary"]
            ELSE [IdleLoad EXCEPT !.pc = "resolve"]
       ELSE IdleLoad]
  /\ loadError = FALSE

NoNormalize == nIn = <<>> /\ nOut = NotCalled /\ nOut2 = NotCalled

NoUniqueId == uBase = "" /\ uExisting = {} /\ uResult = NotCalledId

NoRun == terminals = <<>> /\ lastRun = NoRunYet

\* activate(): setupFileWatchers creates the watchers when a folder is open;
\* no status-bar widget exists before the first load completes
NoOp == [kind |-> "none", seq |-> 0]

Started ==
  /\ active = TRUE
  /\ watching = folderOpen
  /\ statusBarItems = {}
  /\ leaked = 0
  /\ lastOp = NoOp

Init ==
  /\ folderOpen \in BOOLEAN
  /\ primaryFile \in PrimaryContents
  /\ fallbackFile \in FallbackContents
  /\ settings \in SettingsContents
  /\ Activated
  /\ Started /\ showAll \in BOOLEAN
  /\ NoNormalize /\ NoUniqueId /\ NoRun

Next ==
  \/ Refresh \/ ChangeSettings \/ ChangeShowAll \/ ChangePrimary \/ ChangeFallback
  \/ LoadStep \/ deactivate

Spec == Init /\ [][Next]_vars

(***************************************************************************)
(* One resolution over every combination of sources: the initial load      *)
(* runs to completion while the sources stay as they are.                  *)
(***************************************************************************)
InitResolve ==
  /\ folderOpen \in BOOLEAN
  /\ primaryFile \in AnyPrimary
  /\ fallbackFile \in AnyFallback
  /\ settings \in AnySettings
  /\ Activated
  /\ Started /\ showAll = FALSE
  /\ NoNormalize /\ NoUniqueId /\ NoRun

NextResolve == LoadStep

SpecResolve == InitResolve /\ [][NextResolve]_vars

(***************************************************************************)
(* normalizeShortcuts on its own: applied to a list, and applied again to  *)
(* its own output (a resolved record pinned to the settings is normalized  *)
(* again by the next load).                                                *)
(***************************************************************************)
Bare == [id |-> "a", label |-> "A", command |-> "run-a"]

Explicit ==
  [id |-> "b", label |-> "B", command |-> "run-b", reuse |-> FALSE,
   focus |-> FALSE, codicon |-> "tools", location |-> "panel"]

AsDefault ==
  [id |-> "c", label |-> "C", command |-> "run-c", reuse |-> TRUE,
   codicon |-> "terminal"]

Partial ==
  [id |-> "d", label |-> "D", command |-> "run-d", terminalName |-> "Build",
   focus |-> FALSE, location |-> "panel", statusBar |-> TRUE]

NormPool == {Bare, Explicit, AsDefault, Partial, Null}

Quiet ==
  /\ folderOpen = FALSE
  /\ primaryFile = FileOf("missing")
  /\ fallbackFile = FileOf("missing")
  /\ settings = Settings(FALSE, <<>>, FALSE, FALSE)
  /\ shortcuts = <<>>
  /\ loads = [p \in LoadIds |-> IdleLoad]
  /\ loadError = FALSE
  /\ Started /\ showAll = FALSE

InitNormalize ==
  /\ Quiet
  /\ nIn \in SeqsUpTo(NormPool, MaxNormLen)
  /\ nOut = NotCalled /\ nOut2 = NotCalled
  /\ NoUniqueId /\ NoRun

NormalizeInput ==
  /\ ~ nOut.called
  /\ nOut' = Called(normalizeShortcuts(nIn))
  /\ UNCHANGED <<envVars, loadVars, nIn, nOut2, uidVars, runVars, lifeVars, barVars,
                 saveVars>>

NormalizeOutput ==
  /\ nOut.called /\ ~ nOut2.called
  /\ nOut2' = Called(normalizeShortcuts(nOut.value))
  /\ UNCHANGED <<envVars, loadVars, nIn, nOut, uidVars, runVars, lifeVars, barVars,
                 saveVars>>

NextNormalize == NormalizeInput \/ NormalizeOutput

SpecNormalize == InitNormalize /\ [][NextNormalize]_vars

(***************************************************************************)
(* makeUniqueId on its own.                                                *)
(***************************************************************************)
IdBases == {"build", "build-1"}

IdUniverse == IdBases \cup {Suffixed(b, i) : b \in IdBases, i \in 1..MaxSuffix}

InitUniqueId ==
  /\ Quiet /\ NoNormalize /\ NoRun
  /\ uBase \in IdBases
  /\ uExisting \in SUBSET IdUniverse
  /\ uResult = NotCalledId

CallMakeUniqueId ==
  /\ ~ uResult.called
  /\ uResult' = Called(makeUniqueId(uBase, uExisting))
  /\ UNCHANGED <<envVars, loadVars, normVars, uBase, uExisting, runVars, lifeVars,
                 barVars, saveVars>>

NextUniqueId == CallMakeUniqueId

SpecUniqueId == InitUniqueId /\ [][NextUniqueId]_vars

(***************************************************************************)
(* The runner on a resolved list that stays as it is.                      *)
(***************************************************************************)
Build ==
  [id |-> "build", label |-> "Build label", command |-> "npm run build",
   terminalName |-> "Build"]

Test ==
  [id |-> "test", label |-> "Build", command |-> "npm test", reuse |-> FALSE,
   focus |-> FALSE]

Lint == [id |-> "Build", label |-> "", command |-> "npm run lint"]

Deploy == [id |-> "deploy", label |-> "Deploy", command |-> "./deploy.sh",
           terminalName |-> ""]

Panel == [id |-> "panel", label |-> "Panel", command |-> "htop",
          location |-> "panel"]

RunPool == {Build, Test, Lint, Deploy, Panel}

InitRun ==
  /\ folderOpen = FALSE
  /\ primaryFile = FileOf("missing")
  /\ fallbackFile = FileOf("missing")
  /\ \E l \in SeqsUpTo(RunPool, MaxRunLen) :
       /\ settings = Settings(TRUE, l, FALSE, FALSE)
       /\ shortcuts = normalizeShortcuts(l)
  /\ loads = [p \in LoadIds |-> IdleLoad]
  /\ loadError = FALSE
  /\ active = TRUE /\ watching = FALSE /\ showAll = FALSE /\ lastOp = NoOp
  /\ statusBarItems = rebuildStatusBar(shortcuts, FALSE).items
  /\ leaked = rebuildStatusBar(shortcuts, FALSE).dropped
  /\ NoNormalize /\ NoUniqueId /\ NoRun

NextRun == RunShortcutById \/ RunPicked \/ CloseTerminal

SpecRun == InitRun /\ [][NextRun]_vars

(***************************************************************************)
(* The save operations, from a state in which the initial load is done.    *)
(***************************************************************************)
SavePrimary ==
  {FileOf("missing"), FileOf("badjson"), FileOf("array"), FileOf("null"),
   Doc(<<Fa>>)}

SaveSettings ==
  {Settings(FALSE, <<>>, FALSE, FALSE), Settings(TRUE, <<Sa, Rb>>, FALSE, FALSE),
   Settings(TRUE, <<Sa, Fa>>, FALSE, FALSE)}

InitSave ==
  /\ folderOpen \in BOOLEAN
  /\ primaryFile \in (IF folderOpen THEN SavePrimary ELSE {FileOf("missing")})
  /\ fallbackFile \in (IF folderOpen THEN {FileOf("missing"), Doc(<<Rb>>)}
                       ELSE {FileOf("missing")})
  /\ settings \in SaveSettings
  /\ shortcuts = loadShortcuts(readFileConfig(primaryFile), settings).value
  /\ loads = [p \in LoadIds |-> IdleLoad]
  /\ loadError = FALSE
  /\ active = TRUE /\ watching = folderOpen /\ showAll = FALSE /\ lastOp = NoOp
  /\ statusBarItems = rebuildStatusBar(shortcuts, FALSE).items
  /\ leaked = rebuildStatusBar(shortcuts, FALSE).dropped
  /\ NoNormalize /\ NoUniqueId /\ NoRun

NextSave == AddGlobal \/ PinToGlobal \/ SaveGlobal \/ SaveWorkspace \/ DuplicateGlobal

SpecSave == InitSave /\ [][NextSave]_vars

(***************************************************************************)
(* Vocabulary of the properties.                                           *)
(***************************************************************************)
\* no invocation of load is in flight
Done == \A p \in LoadIds : loads[p].pc = "idle"

\* the text of a file reads and parses into an object
Parses(content) == content.kind \in {"object", "array"}

\* the per-project document of the current sources
FileData ==
  IF ~ folderOpen THEN NoFileConfig
  ELSE IF Parses(primaryFile) THEN primaryFile
  ELSE IF Parses(fallbackFile) THEN fallbackFile
  ELSE NoFileConfig

\* the per-project document carries a commands array, whose elements are F
FilePresent == FileData.kind = "object" /\ FileData.cmds = "array"

F == FileData.commands

S == IF settings.hasCommands THEN settings.commands ELSE <<>>

MergeEnabled == (~ settings.hasMerge) \/ settings.merge

AllRecords(l) == \A i \in 1..Len(l) : ~ IsNull(l[i])

NoRepeatedId(l) ==
  \A i \in 1..Len(l) : \A j \in 1..Len(l) : i # j => IdOf(l[i]) # IdOf(l[j])

\* the records of S, in S's order, whose id does not occur in F
UnseenOfS ==
  LET Unseen(s) == IdOf(s) \notin IdsOf(F)
  IN  SelectSeq(S, Unseen)

(***************************************************************************)
(* C1: with a file list F present and merging enabled, the resolved list   *)
(* is F (defaults applied) followed by the records of S whose id is not in *)
(* F, and no id occurs twice in it.                                        *)
(***************************************************************************)
MergeYieldsFileThenUnseenSettingsWithoutRepeats ==
  (Done /\ FilePresent /\ MergeEnabled /\ AllRecords(F) /\ AllRecords(S)) =>
    /\ shortcuts = normalizeShortcuts(F) \o normalizeShortcuts(UnseenOfS)
    /\ NoRepeatedId(shortcuts)

(***************************************************************************)
(* C2: when the file list is empty or absent, the resolved list is         *)
(* normalize(S) whether merging is enabled or not (original statement).    *)
(***************************************************************************)
EmptyOrAbsentFileYieldsSettings ==
  (Done /\ (~ FilePresent \/ F = <<>>) /\ AllRecords(S)) =>
    shortcuts = normalizeShortcuts(S)

(***************************************************************************)
(* C2 as amended: an absent file list (no folder, no file, unparsable      *)
(* file, no commands array) yields normalize(S) under either value of the  *)
(* merge flag; a file whose commands array is empty yields normalize(S)    *)
(* of a record list S when merging is enabled and the empty list when      *)
(* merging is disabled.                                                    *)
(***************************************************************************)
AbsentFileYieldsSettingsEmptyFileOnlyWhenMerging ==
  Done =>
    /\ ~ FilePresent => (~ loadError /\ shortcuts = normalizeShortcuts(S))
    /\ (FilePresent /\ F = <<>> /\ MergeEnabled /\ AllRecords(S)) =>
         (~ loadError /\ shortcuts = normalizeShortcuts(S))
    /\ (FilePresent /\ F = <<>> /\ ~ MergeEnabled) =>
         (~ loadError /\ shortcuts = <<>>)

EmptyFileResolved ==
  /\ Done /\ FilePresent /\ F = <<>> /\ ~ MergeEnabled
  /\ S # <<>> /\ AllRecords(S)
  /\ shortcuts = <<>>

(***************************************************************************)
(* C3: with merging disabled and a non-empty file list F, the resolved     *)
(* list is F in F's order with the field defaults applied, whatever S is.  *)
(***************************************************************************)
MergeDisabledYieldsFileOnly ==
  (Done /\ FilePresent /\ F # <<>> /\ ~ MergeEnabled) =>
    (~ loadError /\ shortcuts = normalizeShortcuts(F))

FileOnlyResolved ==
  /\ Done /\ FilePresent /\ F # <<>> /\ ~ MergeEnabled
  /\ \E i \in 1..Len(S) : ~ IsNull(S[i]) /\ IdOf(S[i]) \notin IdsOf(F)
  /\ shortcuts = normalizeShortcuts(F)

(***************************************************************************)
(* C4: the resolved list never holds two records with the same id.         *)
(***************************************************************************)
ResolvedIdsAreUnique == NoRepeatedId(shortcuts)

(***************************************************************************)
(* C5: a load never throws, whatever the sources hold.                     *)
(***************************************************************************)
LoadNeverThrows == ~ loadError

(***************************************************************************)
(* C6: the primary document is used whenever it parses into an object,     *)
(* the fallback document exactly when the primary does not and the         *)
(* fallback does, and no file data is found when neither does or no folder *)
(* is open.  Stated on the steps of readFileConfig, the contents being     *)
(* those at the time of each read.                                         *)
(***************************************************************************)
ReadFileConfigStep(p) ==
  /\ (loads[p].pc = "readPrimary" /\ loads'[p].pc # "readPrimary") =>
       IF Parses(primaryFile)
       THEN loads'[p].pc = "resolve" /\ loads'[p].fromFile = primaryFile
       ELSE loads'[p].pc = "readFallback"
  /\ (loads[p].pc = "readFallback" /\ loads'[p].pc # "readFallback") =>
       /\ loads'[p].pc = "resolve"
       /\ loads'[p].fromFile =
            IF Parses(fallbackFile) THEN fallbackFile ELSE NoFileConfig
  /\ (loads[p].pc = "idle" /\ loads'[p].pc # "idle") =>
       IF folderOpen THEN loads'[p].pc = "readPrimary"
       ELSE loads'[p].pc = "resolve" /\ loads'[p].fromFile = NoFileConfig

PrimaryThenFallback == [][\A p \in LoadIds : ReadFileConfigStep(p)]_vars

FallbackDocumentUsed ==
  \E p \in LoadIds :
    /\ loads[p].pc = "resolve"
    /\ ~ Parses(primaryFile)
    /\ fallbackFile.kind = "object"
    /\ loads[p].fromFile = fallbackFile

(***************************************************************************)
(* C7: normalize keeps every field that is present on the input record,    *)
(* and fills exactly the absent ones among reuse, focus, codicon and       *)
(* location with true, true, "terminal" and "editor".                      *)
(***************************************************************************)
FieldsOf(s) == IF IsNull(s) THEN {} ELSE DOMAIN s

NormalizeKeepsPresentFields ==
  nOut.called =>
    /\ Len(nOut.value) = Len(nIn)
    /\ \A i \in 1..Len(nIn) :
         LET s == nIn[i]
             t == nOut.value[i]
         IN  /\ DOMAIN t = FieldsOf(s) \cup {"reuse", "focus", "codicon", "location"}
             /\ \A f \in FieldsOf(s) : t[f] = s[f]
             /\ "reuse" \notin FieldsOf(s) => t.reuse = TRUE
             /\ "focus" \notin FieldsOf(s) => t.focus = TRUE
             /\ "codicon" \notin FieldsOf(s) => t.codicon = "terminal"
             /\ "location" \notin FieldsOf(s) => t.location = "editor"

ExplicitFieldsNormalized ==
  /\ nOut.called
  /\ \E i \in 1..Len(nIn) :
       /\ ~ IsNull(nIn[i])
       /\ "reuse" \in DOMAIN nIn[i] /\ nIn[i].reuse = FALSE
       /\ "codicon" \in DOMAIN nIn[i] /\ nIn[i].codicon = "tools"
  /\ \E i \in 1..Len(nIn) :
       /\ ~ IsNull(nIn[i])
       /\ "focus" \in DOMAIN nIn[i] /\ "reuse" \notin DOMAIN nIn[i]

(***************************************************************************)
(* C8: normalize is idempotent: normalize(normalize(x)) = normalize(x).    *)
(***************************************************************************)
NormalizeIsIdempotent == nOut2.called => nOut2.value = nOut.value

NormalizedTwice ==
  /\ nOut2.called
  /\ Len(nIn) = MaxNormLen
  /\ nOut.value # nIn
  /\ \E i \in 1..Len(nIn) : ~ IsNull(nIn[i]) /\ "codicon" \notin DOMAIN nIn[i]

(***************************************************************************)
(* C9: makeUniqueId returns base when base is not in existing, else        *)
(* base-i for the smallest i >= 1 with base-i not in existing; the result  *)
(* is not in existing, and existing is left as it was.                     *)
(***************************************************************************)
UniqueIdResult ==
  uResult.called =>
    /\ uBase \notin uExisting => uResult.value = uBase
    /\ uBase \in uExisting =>
         \E i \in 1..(Cardinality(uExisting) + 1) :
           /\ uResult.value = uBase \o "-" \o ToString(i)
           /\ \A j \in 1..(i - 1) : (uBase \o "-" \o ToString(j)) \in uExisting
    /\ uResult.value \notin uExisting

MakeUniqueIdIsFirstFreeSuffix ==
  /\ [] UniqueIdResult
  /\ [][uExisting' = uExisting /\ uBase' = uBase]_vars

SecondSuffixChosen ==
  /\ uResult.called
  /\ uBase = "build"
  /\ {"build", "build-1"} \subseteq uExisting
  /\ uResult.value = "build-2"

(***************************************************************************)
(* C10: run targets the name terminalName, else label, else id, and        *)
(* creates a session exactly when reuse is false or no open session has    *)
(* that name; otherwise the command goes to the existing session of that   *)
(* name and no session is created.                                         *)
(***************************************************************************)
TargetName(s) ==
  IF "terminalName" \in DOMAIN s /\ s.terminalName # "" THEN s.terminalName
  ELSE IF "label" \in DOMAIN s /\ s.label # "" THEN s.label
  ELSE s.id

RunEffect ==
  (lastRun'.tick # lastRun.tick /\ lastRun'.kind = "run") =>
    LET s == lastRun'.rec
        name == TargetName(s)
        same == {i \in 1..Len(terminals) : terminals[i].name = name}
        reuse == s.reuse # FALSE
        created == Len(terminals') = Len(terminals) + 1
    IN  /\ Len(terminals') \in {Len(terminals), Len(terminals) + 1}
        /\ created <=> (~ reuse \/ same = {})
        /\ created =>
             /\ SubSeq(terminals', 1, Len(terminals)) = terminals
             /\ terminals'[Len(terminals')].name = name
             /\ terminals'[Len(terminals')].sent = s.command
        /\ ~ created =>
             \E i \in same :
               /\ terminals'[i].name = name
               /\ terminals'[i].sent = s.command
               /\ \A j \in 1..Len(terminals) : j # i => terminals'[j] = terminals[j]

RunReusesSessionByName == [][RunEffect]_vars

\* a record with reuse false has run while a session of its name was open,
\* and a record with reuse true has run into an existing session
ReuseAndFreshSessionsSeen ==
  /\ Len(terminals) = 2
  /\ terminals[1].name = "Build" /\ terminals[2].name = "Build"
  /\ terminals[1].sent = "npm run build"
  /\ terminals[2].sent = "npm test"
  /\ lastRun.kind = "run" /\ lastRun.rec.id = "build"

(***************************************************************************)
(* C11: run-by-id with an id that is not in the resolved list shows the    *)
(* error notice and does nothing else: the terminal sessions and the       *)
(* resolved list stay as they are.                                         *)
(***************************************************************************)
UnknownIdStep ==
  (lastRun'.tick # lastRun.tick /\ lastRun'.id # ""
     /\ lastRun'.id \notin IdsOf(shortcuts)) =>
    /\ lastRun'.kind = "notfound"
    /\ terminals' = terminals
    /\ shortcuts' = shortcuts

UnknownIdShowsErrorOnly == [][UnknownIdStep]_vars

UnknownIdRefused ==
  /\ lastRun.kind = "notfound"
  /\ lastRun.id = "unknown"
  /\ shortcuts # <<>>
  /\ terminals # <<>>

(***************************************************************************)
(* C12: run gives the chosen session the focus for every record whose      *)
(* focus is true or unspecified, and withholds it only when focus is       *)
(* explicitly false.                                                       *)
(***************************************************************************)
FocusStep ==
  (lastRun'.tick # lastRun.tick /\ lastRun'.kind = "run") =>
    LET s == lastRun'.rec
        wanted == ~ ("focus" \in DOMAIN s /\ s.focus = FALSE)
    IN  terminals'[lastRun'.target].focused <=> wanted

RunFocusesUnlessFocusIsFalse == [][FocusStep]_vars

(***************************************************************************)
(* C19: while no session is closed, the runs of a record whose reuse is    *)
(* not false create at most one session, and all of them send their        *)
(* command to one and the same session.                                    *)
(***************************************************************************)
ReusingRecordKeepsOneSession ==
  \A i \in 1..Len(shortcuts) :
    LET r == shortcuts[i]
    IN  ~ ("reuse" \in DOMAIN r /\ r.reuse = FALSE) =>
          /\ Cardinality({k \in 1..Len(terminals) : terminals[k].creator = r.id}) <= 1
          /\ Cardinality({k \in 1..Len(terminals) : r.id \in terminals[k].users}) <= 1

\* "build" created the first session, "test" (reuse false) a second one of
\* the same name, and "build" has run again, into the first
SameSessionAfterRerun ==
  /\ Len(terminals) = 2
  /\ terminals[1].creator = "build" /\ terminals[2].creator = "test"
  /\ terminals[1].name = terminals[2].name
  /\ lastRun.kind = "run" /\ lastRun.id = "build" /\ lastRun.target = 1
  /\ terminals[1].sent = "npm run build"
  /\ "build" \notin terminals[2].users

(***************************************************************************)
(* C15: reloads overlap at their reads; the shared list is replaced only   *)
(* by a reload that completes, which leaves its own result there (the      *)
(* reload that completes last wins), and at every moment the list is the   *)
(* complete result of some resolution, never a partly built one.           *)
(***************************************************************************)
Completes(p) == loads[p].pc = "assign" /\ loads'[p].pc = "idle"

CompleteLists ==
  {<<>>} \cup
  {loadShortcuts(c, v).value :
     c \in PrimaryContents \cup FallbackContents \cup {NoFileConfig},
     v \in SettingsContents}

ListReplacedByCompletingReload ==
  /\ shortcuts' # shortcuts => \E p \in LoadIds : Completes(p)
  /\ \A p \in LoadIds : Completes(p) => shortcuts' = loads[p].result

LastCompletedReloadWins ==
  [](shortcuts \in CompleteLists) /\ [][ListReplacedByCompletingReload]_vars

\* one reload is about to replace a non-empty list by a different one while
\* another reload is still waiting for a read
OverlappingReloadsSeen ==
  \E p \in LoadIds : \E q \in LoadIds :
    /\ p # q
    /\ loads[p].pc \in {"readPrimary", "readFallback"}
    /\ loads[q].pc = "assign"
    /\ shortcuts # <<>>
    /\ loads[q].result # shortcuts

(***************************************************************************)
(* C16: once deactivate has run, the status-bar map holds no live widget   *)
(* and no file watcher is active, also after a reload that was in flight   *)
(* at that moment has completed.                                           *)
(***************************************************************************)
NothingLiveAfterDeactivate ==
  ~ active => statusBarItems = {} /\ ~ watching

(***************************************************************************)
(* C17: when every started reload has completed, the resolved list is the  *)
(* resolution of the current contents of the files and the settings.       *)
(***************************************************************************)
SettledListIsResolutionOfSources ==
  (active /\ Done) => shortcuts = loadShortcuts(FileData, settings).value

(***************************************************************************)
(* C18: when a reload completes, the live status-bar widgets are the ones  *)
(* the map tracks, one for each resolved shortcut that is shown.           *)
(***************************************************************************)
LiveWidgetsAreTracked ==
  LET ids == shownIds(shortcuts', showAll')
  IN  (\E p \in LoadIds : Completes(p)) =>
        /\ leaked' = 0
        /\ statusBarItems' = {ids[i] : i \in 1..Len(ids)}
        /\ Cardinality(statusBarItems') = Len(ids)

EveryReloadLeavesWidgetsTracked == [][LiveWidgetsAreTracked]_vars

(***************************************************************************)
(* Vocabulary of the save operations.                                      *)
(***************************************************************************)
Saved == lastOp.kind # "none"

\* the latest operation attempted a write and the write was rejected
WriteFailed == Saved /\ lastOp.writes > 0 /\ ~ lastOp.ok

GlobalCallers == {"addGlobal", "pinToGlobal", "saveGlobal", "duplicateGlobal"}

\* the operation went no further than its prompts
Abandoned ==
  /\ lastOp.writes = 0
  /\ lastOp.reloads = 0
  /\ "success" \notin lastOp.notices
  /\ S = lastOp.before

(***************************************************************************)
(* C13, as stated: cancelling any one of the seven prompts of the          *)
(* add-shortcut sequence abandons the operation: nothing is written, no    *)
(* reload and no success notice follow.                                    *)
(***************************************************************************)
CancelAtAnyStepAbandons ==
  (lastOp.kind = "addGlobal" /\ lastOp.cancelled # {}) => Abandoned

(***************************************************************************)
(* C13, amended: cancelling the label, command or identifier prompt        *)
(* abandons the operation; cancelling the terminal-name, status-bar,       *)
(* location or icon prompt does not: the record is built with that         *)
(* answer's default (no terminal name, not in the status bar, editor,      *)
(* icon "terminal") and is written to the settings list.                   *)
(***************************************************************************)
DefaultsForCancelled(rec, cancelled) ==
  /\ 4 \in cancelled => "terminalName" \notin DOMAIN rec
  /\ 5 \in cancelled => rec.statusBar = FALSE
  /\ 6 \in cancelled => rec.location = "editor"
  /\ 7 \in cancelled => rec.codicon = "terminal"

CancelAbandonsOnlyAtFirstThreeSteps ==
  lastOp.kind = "addGlobal" =>
    /\ lastOp.cancelled \cap (1..3) # {} => Abandoned
    /\ (lastOp.cancelled # {} /\ lastOp.cancelled \subseteq 4..7) =>
         /\ lastOp.writes = 1
         /\ DefaultsForCancelled(lastOp.rec, lastOp.cancelled)
         /\ lastOp.ok =>
              /\ \E i \in 1..Len(S) : S[i] = lastOp.rec
              /\ lastOp.reloads > 0
              /\ "success" \in lastOp.notices

\* the location prompt was cancelled and the record was saved all the same
LateCancelSaved ==
  /\ lastOp.kind = "addGlobal"
  /\ lastOp.cancelled = {6}
  /\ lastOp.ok
  /\ "success" \in lastOp.notices

(***************************************************************************)
(* C14: when the write of the settings list or of the per-project file     *)
(* fails, an error notice is shown and the write is attempted once, for    *)
(* each of the five callers; the source keeps what it held.                *)
(***************************************************************************)
FailedWriteShowsErrorOnce ==
  WriteFailed =>
    /\ "error" \in lastOp.notices
    /\ lastOp.writes = 1
    /\ lastOp.target = "settings" => S = lastOp.before
    /\ lastOp.target = "file" => primaryFile = lastOp.before

FailedFileWriteSeen ==
  /\ WriteFailed
  /\ lastOp.kind = "saveWorkspace"
  /\ lastOp.before = Doc(<<Fa>>)
  /\ lastOp.rec = Rb

(***************************************************************************)
(* C20: saving s into the settings list replaces the first record with the *)
(* id of s, or appends s when there is none; every other record keeps its  *)
(* place; unique ids stay unique; saving s again changes nothing.          *)
(***************************************************************************)
FirstWithId(list, id) ==
  IF \E i \in 1..Len(list) : IdOf(list[i]) = id
  THEN CHOOSE i \in 1..Len(list) :
         /\ IdOf(list[i]) = id
         /\ \A j \in 1..(i - 1) : IdOf(list[j]) # id
  ELSE 0

ReplacedOrAppended(before, s, after) ==
  LET k == FirstWithId(before, IdOf(s))
  IN  IF k = 0
      THEN after = before \o <<s>>
      ELSE /\ Len(after) = Len(before)
           /\ after[k] = s
           /\ \A i \in 1..Len(before) : i # k => after[i] = before[i]

UpsertReplacesFirstOrAppends ==
  (Saved /\ lastOp.kind \in GlobalCallers /\ lastOp.writes > 0) =>
    /\ ReplacedOrAppended(lastOp.before, lastOp.rec, lastOp.written)
    /\ NoRepeatedId(lastOp.before) => NoRepeatedId(lastOp.written)
    /\ upsert(lastOp.written, lastOp.rec) = lastOp.written
    /\ S = (IF lastOp.ok THEN lastOp.written ELSE lastOp.before)

\* the saved id occurred twice and the first occurrence was replaced
FirstOfRepeatedIdReplaced ==
  /\ lastOp.kind = "saveGlobal"
  /\ lastOp.ok
  /\ lastOp.before = <<Sa, Fa>>
  /\ lastOp.rec = Fa
  /\ S = <<Fa, Fa>>

(***************************************************************************)
(* C21: a success notice of a save operation is shown only when its write  *)
(* to the settings or to the per-project file succeeded; after a failed    *)
(* write, or with no folder open, none is shown.                           *)
(***************************************************************************)
SuccessNoticeOnlyAfterWrite ==
  (Saved /\ "success" \in lastOp.notices) => lastOp.ok

(***************************************************************************)
(* C22: a save-workspace of s whose write succeeds, followed by the        *)
(* reload, keeps every id of the resolved list and has s in it.            *)
(***************************************************************************)
WorkspaceSaveStep ==
  /\ lastOp'.seq = lastOp.seq + 1
  /\ lastOp'.kind = "saveWorkspace"
  /\ lastOp'.ok
  /\ lastOp'.reloads > 0

WorkspaceSaveOnlyAddsOrReplaces ==
  WorkspaceSaveStep =>
    /\ IdsOf(shortcuts) \subseteq IdsOf(shortcuts')
    /\ IdOf(lastOp'.rec) \in IdsOf(shortcuts')

SaveWorkspaceKeepsResolvedIds == [][WorkspaceSaveOnlyAddsOrReplaces]_vars

====
